---- MODULE Spec2Model ----
(***************************************************************************)
(* A model of the Grailed listing agent (src/grailed_agent.py) and of the  *)
(* listing-file tools of its test variant (src/test_grailed_agent.py).     *)
(*                                                                         *)
(* The Python code is of two kinds.  The tools are ordinary functions and  *)
(* are modelled as operators computed the way the code computes them.  The *)
(* browser workflow is not code: run_with_mcp_context hands one            *)
(* instruction string to a language-model agent (Agent(...), sampled at    *)
(* temperature 0.1) together with a list of tools, and the agent decides   *)
(* which tool to call next.  Nothing in the code orders, guards or counts  *)
(* the tool calls, so the agent is modelled as a process that may call any *)
(* registered tool at any time.  What each tool does and returns is taken  *)
(* from its body; where a tool only returns a text of instructions         *)
(* (detect_current_page_state, verify_sell_page_ready), the agent reads    *)
(* the page as that text says: it reports a state whose listed indicators  *)
(* the page shows.                                                         *)
(*                                                                         *)
(* Five specifications share the variables:                                *)
(*   SpecFile  validate_listings_file and analyze_listing_requirements     *)
(*             applied to a bounded listings file                          *)
(*   SpecMeta  validate_grailed_metadata, expand_image_paths and           *)
(*             gemini_image_reader applied to a bounded record             *)
(*   Spec      main / run_with_mcp_context: one run of the agent over the  *)
(*             items of the listings file (fill and publish calls)         *)
(*   SpecNav   the agent's navigation tools against the browser page       *)
(*   SpecSession  the browser client of a run: the candidate servers, the  *)
(*             probing connection and the connection the agent works on    *)
(* Spec and SpecNav are the two projections of the same agent: the item    *)
(* tools and the navigation tools share no state in the code.              *)
(***************************************************************************)
EXTENDS Integers, Sequences, FiniteSets, TLC

VARIABLES
    fpc,        \* validate_listings_file: "idle" before the call, "returned" after
    file,       \* the listings file the call was given
    fresult,    \* the dictionary validate_listings_file returned
    aresult,    \* the dictionary analyze_listing_requirements returned
    mpc,        \* validate_grailed_metadata: "idle" before the call, "returned" after
    metadata,   \* the record the call was given
    mresult,    \* what the call produced: the validated record or the exception
    mresult2,   \* what validate_grailed_metadata produced for the validated record
    gresult,    \* what gemini_image_reader produced for one image path
    eresult,    \* what expand_image_paths produced for the record's image paths
    pc,         \* main / run_with_mcp_context: where the run is
    argv,       \* the command line: command, --dry-run, --start-index
    dry_run,    \* main's local dry_run
    order,      \* the item indices whose form the agent has filled, in call order
    published,  \* per item index: how often the publish click was issued
    outcome,    \* how main ended
    report,     \* the per-item outcomes the caller of the run received
    interrupted, \* Len(order) when the user pressed Ctrl-C in a prompt, -1 before
    npc,        \* the agent in the browser: "agent" or "login_wait" (inside input())
    page,       \* the browser page: url, login dialog landmark, form landmarks
    lastClass,  \* the label reported after the last detect_current_page_state
    verified,   \* the verdict of verify_sell_page_ready, until the next navigation action
    acts,       \* browser actions issued since the page was last observed
    attempts,   \* clicks on the sell button since the sell page was last classified
    budget,     \* max_retries of the last wait_and_retry call (its default before)
    lastTool,   \* the last tool call that returned
    afterLogin, \* how prompt_user_login returned, until the next classification
    spc,        \* the browser session of a run: where run_with_mcp_context is
    servers,    \* per candidate server: how it behaves when a client connects
    cand,       \* setup_playwright_client: the position of the candidate at hand
    tried,      \* the candidates setup_playwright_client has tried, in order
    conns,      \* the client connections that are open
    client,     \* what setup_playwright_client returned: a candidate's position, 0 for None
    agentMade,  \* create_agent_with_mcp has returned an agent
    issued,     \* the commands the agent has issued to the browser
    sresult     \* what run_with_mcp_context produced

fileVars == <<fpc, file, fresult, aresult>>
metaVars == <<mpc, metadata, mresult, mresult2, gresult, eresult>>
runVars == <<pc, argv, dry_run, order, published, outcome, report, interrupted>>
navVars == <<npc, page, lastClass, verified, acts, attempts, budget, lastTool, afterLogin>>
sessVars == <<spc, servers, cand, tried, conns, client, agentMade, issued, sresult>>

vars == <<fpc, file, fresult, aresult, mpc, metadata, mresult, mresult2, gresult, eresult,
          pc, argv, dry_run, order, published, outcome, report, interrupted,
          npc, page, lastClass, verified, acts, attempts, budget, lastTool, afterLogin,
          spc, servers, cand, tried, conns, client, agentMade, issued, sresult>>

-----------------------------------------------------------------------------
(* Bounds of the model *)

MaxItems == 2       \* items in a listings file
MaxAbsent == 1      \* keys left out of a record given to validate_grailed_metadata
MaxImages == 2      \* image paths in a record given to validate_grailed_metadata
MaxFills == 3       \* form fills the agent issues in one run
MaxAttempts == 4    \* clicks on the sell button the agent issues in a row
MaxCommands == 2    \* commands the agent issues to the browser in one session

-----------------------------------------------------------------------------
(* File system and listing records *)

\* The paths that exist on disk (Path(...).exists()): two image files and a
\* directory whose name ends in .jpg.
ExistingFiles == {"a.jpg", "c.png", "d.jpg"}

\* The existing paths that open(path, "rb") cannot read: the directory.
Unreadable == {"d.jpg"}

Exists(path) == path \in ExistingFiles

\* validate_listings_file: required_fields, in the order of the list.
FileRequiredFields == <<"image_paths", "price">>

\* validate_listings_file: metadata_fields, in the order of the list.
FileMetadataFields ==
    <<"department", "category", "sub_category", "designer", "item_name",
      "size", "color", "condition", "description">>

Range(s) == {s[i] : i \in 1..Len(s)}

\* JSON null.
Null == "null"

-----------------------------------------------------------------------------
(* validate_listings_file *)

\* CheckRequired with the "valid = False" assignment of the branch left out.
RECURSIVE CheckRequiredKeepsValid(_, _, _)
CheckRequiredKeepsValid(keys, fields, acc) ==
    IF fields = <<>> THEN acc
    ELSE LET field == Head(fields)
             next  == IF field \notin keys
                      THEN [errors |-> Append(acc.errors,
                                          [msg |-> "Missing required field", field |-> field]),
                            valid  |-> acc.valid]
                      ELSE acc
         IN CheckRequiredKeepsValid(keys, Tail(fields), next)

\* The required-field loop: one error per absent field, and valid set to False
\* by the same branch.
RECURSIVE CheckRequired(_, _, _)
CheckRequired(keys, fields, acc) ==
    IF fields = <<>> THEN acc
    ELSE LET field == Head(fields)
             next  == IF field \notin keys
                      THEN [errors |-> Append(acc.errors,
                                          [msg |-> "Missing required field", field |-> field]),
                            valid  |-> FALSE]
                      ELSE acc
         IN CheckRequired(keys, Tail(fields), next)

\* The image loop: one warning per path that does not exist.
RECURSIVE CheckImages(_, _)
CheckImages(paths, warnings) ==
    IF paths = <<>> THEN warnings
    ELSE CheckImages(Tail(paths),
                     IF ~Exists(Head(paths))
                     THEN Append(warnings,
                                 [msg |-> "Image file not found", path |-> Head(paths)])
                     ELSE warnings)

\* The metadata loop: a field that is absent or null is listed, nothing else.
RECURSIVE CheckMetadata(_, _, _)
CheckMetadata(item, fields, missing) ==
    IF fields = <<>> THEN missing
    ELSE LET field == Head(fields)
         IN CheckMetadata(item, Tail(fields),
                IF field \notin DOMAIN item.f \/ item.f[field] = Null
                THEN Append(missing, field)
                ELSE missing)

\* An item makes the loop body raise (TypeError) when it is not a container
\* ("field not in item" on a number), when it is a string that holds a field
\* name (item[field] on a string) or when its image_paths is null ("for
\* img_path in None").
ItemRaises(item) ==
    \/ item.kind = "scalar"
    \/ item.kind = "keystring"
    \/ /\ "image_paths" \in DOMAIN item.f
       /\ item.f["image_paths"] = Null

\* ItemResult with the two policies merged: a missing metadata field is
\* rejected like a missing required field.
ItemResultStrictMetadata(i, item) ==
    LET req     == CheckRequired(DOMAIN item.f, FileRequiredFields,
                                 [errors |-> <<>>, valid |-> TRUE])
        missing == CheckMetadata(item, FileMetadataFields, <<>>)
    IN [index            |-> i,
        valid            |-> req.valid /\ missing = <<>>,
        errors           |-> req.errors \o
                             [k \in 1..Len(missing) |->
                                [msg |-> "Missing required field", field |-> missing[k]]],
        warnings         |-> IF "image_paths" \in DOMAIN item.f
                             THEN CheckImages(item.imgs, <<>>)
                             ELSE <<>>,
        missing_metadata |-> missing]

\* The body of "for i, item in enumerate(data)" for an item that does not raise.
ItemResult(i, item) ==
    LET req == CheckRequired(DOMAIN item.f, FileRequiredFields,
                             [errors |-> <<>>, valid |-> TRUE])
    IN [index            |-> i,
        valid            |-> req.valid,
        errors           |-> req.errors,
        warnings         |-> IF "image_paths" \in DOMAIN item.f
                             THEN CheckImages(item.imgs, <<>>)
                             ELSE <<>>,
        missing_metadata |-> CheckMetadata(item, FileMetadataFields, <<>>)]

AllValid(results) == \A k \in 1..Len(results) : results[k].valid

RECURSIVE SumLen(_, _)
SumLen(results, key) ==
    IF results = <<>> THEN 0
    ELSE Len(Head(results)[key]) + SumLen(Tail(results), key)

ErrorResult(message) ==
    [kind |-> "error", valid |-> FALSE, error |-> message, items |-> <<>>]

\* The body of the try block: the early returns, open() and json.load, the
\* item loop and the totals.  What it raises is left to the except clauses.
ValidateListingsFileBody(f) ==
    IF f.kind = "missing" THEN ErrorResult("File not found")
    ELSE IF f.kind = "unreadable" THEN [kind |-> "raise", exception |-> "OSError"]
    ELSE IF f.kind = "badjson" THEN [kind |-> "raise", exception |-> "JSONDecodeError"]
    ELSE IF f.kind \in {"notlist", "object"}
         THEN ErrorResult("JSON file must contain a list of items")
    ELSE IF \E k \in 1..Len(f.data) : ItemRaises(f.data[k])
         THEN [kind |-> "raise", exception |-> "TypeError"]
    ELSE LET results == [k \in 1..Len(f.data) |-> ItemResult(k - 1, f.data[k])]
         IN [kind           |-> "ok",
             valid          |-> AllValid(results),
             total_items    |-> Len(f.data),
             total_errors   |-> SumLen(results, "errors"),
             total_warnings |-> SumLen(results, "warnings"),
             items          |-> results]

\* ValidateListingsFile without the "except Exception" clause: only the JSON
\* error is turned into a result.
ValidateListingsFileNoCatchAll(f) ==
    LET body == ValidateListingsFileBody(f)
    IN IF body.kind = "raise" /\ body.exception = "JSONDecodeError"
       THEN ErrorResult("Invalid JSON")
       ELSE body

\* The whole function: the try block and its two except clauses.
ValidateListingsFile(f) ==
    LET body == ValidateListingsFileBody(f)
    IN IF body.kind # "raise" THEN body
       ELSE IF body.exception = "JSONDecodeError" THEN ErrorResult("Invalid JSON")
       ELSE ErrorResult("Validation error")

-----------------------------------------------------------------------------
(* validate_grailed_metadata *)

\* required_fields, in the order of the list.
RequiredFields ==
    <<"department", "category", "sub_category", "designer", "item_name",
      "size", "color", "condition", "price", "description", "image_paths">>

\* optional_fields, in the order of the list.
OptionalFields == <<"accept_offers", "smart_pricing", "country_of_origin">>

\* Path(image_path).suffix on the paths of the model.
Suffix(path) ==
    CASE path = "a.jpg"  -> ".jpg"
      [] path = "b.JPEG" -> ".JPEG"
      [] path = "c.png"  -> ".png"
      [] path = "gone.jpg" -> ".jpg"
      [] path = "d.jpg" -> ".jpg"
      [] OTHER -> ""

\* str.lower() on the suffixes of the model.
Lower(s) == IF s = ".JPEG" THEN ".jpeg" ELSE s

\* The keys of `fields`, in order, that `keys` holds.
RECURSIVE Present(_, _)
Present(keys, fields) ==
    IF fields = <<>> THEN <<>>
    ELSE (IF Head(fields) \in keys THEN <<Head(fields)>> ELSE <<>>)
         \o Present(keys, Tail(fields))

\* The keys of `fields`, in order, that `keys` lacks: one printed warning each.
RECURSIVE Absent(_, _)
Absent(keys, fields) ==
    IF fields = <<>> THEN <<>>
    ELSE (IF Head(fields) \notin keys THEN <<Head(fields)>> ELSE <<>>)
         \o Absent(keys, Tail(fields))

\* FirstBadImage with the suffix compared as it is written.
RECURSIVE FirstBadImageCaseSensitive(_, _)
FirstBadImageCaseSensitive(paths, k) ==
    IF k > Len(paths) THEN 0
    ELSE IF Suffix(paths[k]) \notin {".jpg", ".jpeg"} THEN k
    ELSE FirstBadImageCaseSensitive(paths, k + 1)

\* The image loop: the first path whose lower-cased suffix is not .jpg or
\* .jpeg, or 0 when every path passes.
RECURSIVE FirstBadImage(_, _)
FirstBadImage(paths, k) ==
    IF k > Len(paths) THEN 0
    ELSE IF Lower(Suffix(paths[k])) \notin {".jpg", ".jpeg"} THEN k
    ELSE FirstBadImage(paths, k + 1)

\* CopyField with an escaping step on the description: "&" becomes "&amp;",
\* and an escaped text is escaped again.
CopyFieldEscapes(m, field) ==
    IF field = "description"
    THEN (IF m.f[field] = "v" THEN "v&amp;" ELSE "v&amp;amp;")
    ELSE m.f[field]

\* validated[field] = metadata[field]
CopyField(m, field) == m.f[field]

\* The whole function.  It copies the required and the optional fields the
\* record holds, prints a warning for each absent required field, and raises
\* ValueError on the first image path that is not a JPG (TypeError when
\* image_paths is null).  No field's value is inspected or changed.
ValidateGrailedMetadata(m) ==
    LET keys   == DOMAIN m.f
        copied == Range(Present(keys, RequiredFields))
                  \cup Range(Present(keys, OptionalFields))
        bad    == IF "image_paths" \in keys /\ m.f["image_paths"] # Null
                  THEN FirstBadImage(m.imgs, 1) ELSE 0
    IN IF "image_paths" \in keys /\ m.f["image_paths"] = Null
       THEN [kind |-> "raise",
             errors |-> <<[type |-> "TypeError", about |-> "image_paths", value |-> Null]>>,
             printed |-> Absent(keys, RequiredFields)]
       ELSE IF bad # 0
       THEN [kind |-> "raise",
             errors |-> <<[type |-> "ValueError", about |-> "image format",
                           value |-> Suffix(m.imgs[bad])]>>,
             printed |-> Absent(keys, RequiredFields)]
       ELSE [kind |-> "ok",
             errors |-> <<>>,
             printed |-> Absent(keys, RequiredFields),
             validated |-> [f    |-> [k \in copied |-> CopyField(m, k)],
                            imgs |-> IF "image_paths" \in keys THEN m.imgs ELSE <<>>]]

-----------------------------------------------------------------------------
(* expand_image_paths and gemini_image_reader *)

\* str(Path(path).expanduser().resolve()) on the paths of the model, all of
\* them relative: the absolute path under the working directory.  The suffix
\* stays (no path of the model is a symbolic link).
Resolve(path) ==
    CASE path = "a.jpg"  -> "/cwd/a.jpg"
      [] path = "b.JPEG" -> "/cwd/b.JPEG"
      [] path = "c.png"  -> "/cwd/c.png"
      [] path = "d.jpg"  -> "/cwd/d.jpg"
      [] path = "noext"  -> "/cwd/noext"
      [] OTHER           -> "/cwd/other"

\* ExpandImagePaths with the other policy for a missing file: warn and drop.
RECURSIVE ExpandImagePathsDropsMissing(_, _)
ExpandImagePathsDropsMissing(image_paths, acc) ==
    IF image_paths = <<>> THEN acc
    ELSE LET path == Head(image_paths)
         IN ExpandImagePathsDropsMissing(Tail(image_paths),
                IF Exists(path)
                THEN [acc EXCEPT !.paths = Append(@, Resolve(path))]
                ELSE [acc EXCEPT !.printed = Append(@, path)])

\* expand_image_paths: the loop.  Either branch appends the resolved path; the
\* else branch prints the warning first.
RECURSIVE ExpandImagePaths(_, _)
ExpandImagePaths(image_paths, acc) ==
    IF image_paths = <<>> THEN acc
    ELSE LET path == Head(image_paths)
         IN ExpandImagePaths(Tail(image_paths),
                IF Exists(path)
                THEN [acc EXCEPT !.paths = Append(@, Resolve(path))]
                ELSE [acc EXCEPT !.paths = Append(@, Resolve(path)),
                                 !.printed = Append(@, path)])

\* gemini_image_reader: the body of the try block.  It returns the not-found
\* text, raises ValueError on a suffix that is not .jpg/.jpeg (lower-cased),
\* raises OSError when open() fails, or returns the success text.
GeminiImageReaderBody(image_path) ==
    IF ~Exists(image_path)
    THEN [kind |-> "return", text |-> "Error: Image file not found", cause |-> ""]
    ELSE IF Lower(Suffix(image_path)) \notin {".jpg", ".jpeg"}
    THEN [kind |-> "raise", text |-> "", cause |-> "Invalid image format"]
    ELSE IF image_path \in Unreadable
    THEN [kind |-> "raise", text |-> "", cause |-> "OSError"]
    ELSE [kind |-> "return", text |-> "Image successfully loaded", cause |-> ""]

\* gemini_image_reader: "except Exception as e" turns whatever the body raised
\* into the returned text "Error reading image ...: <e>".
GeminiImageReader(image_path) ==
    LET body == GeminiImageReaderBody(image_path)
    IN IF body.kind = "raise"
       THEN [kind |-> "return", text |-> "Error reading image", cause |-> body.cause]
       ELSE body

-----------------------------------------------------------------------------
(* analyze_listing_requirements *)

\* analyze_listing_requirements: metadata_fields, in the order of the list.
AnalysisMetadataFields ==
    <<"department", "category", "sub_category", "designer", "item_name",
      "size", "color", "condition", "description">>

\* Increment with the count set to 1 whatever it was before.
IncrementOverwrites(common, field) ==
    IF \E k \in 1..Len(common) : common[k].field = field
    THEN [k \in 1..Len(common) |->
            IF common[k].field = field THEN [common[k] EXCEPT !.count = 1]
            ELSE common[k]]
    ELSE Append(common, [field |-> field, count |-> 1])

\* common_missing_fields[field] = common_missing_fields.get(field, 0) + 1, on
\* the dictionary kept as its entries in insertion order.
Increment(common, field) ==
    IF \E k \in 1..Len(common) : common[k].field = field
    THEN [k \in 1..Len(common) |->
            IF common[k].field = field THEN [common[k] EXCEPT !.count = @ + 1]
            ELSE common[k]]
    ELSE Append(common, [field |-> field, count |-> 1])

\* The inner loop: a field that is absent or null is appended to
\* missing_fields and counted in common_missing_fields.
RECURSIVE AnalyzeFields(_, _, _)
AnalyzeFields(item, fields, acc) ==
    IF fields = <<>> THEN acc
    ELSE LET field == Head(fields)
         IN AnalyzeFields(item, Tail(fields),
                IF field \notin DOMAIN item.f \/ item.f[field] = Null
                THEN [missing_fields |-> Append(acc.missing_fields, field),
                      common         |-> Increment(acc.common, field)]
                ELSE acc)

\* The outer loop: each item adds one to items_needing_metadata when its
\* missing_fields is not empty, and one to items_ready otherwise.
RECURSIVE AnalyzeItems(_, _)
AnalyzeItems(data, analysis) ==
    IF data = <<>> THEN analysis
    ELSE LET r == AnalyzeFields(Head(data), AnalysisMetadataFields,
                                [missing_fields |-> <<>>,
                                 common |-> analysis.common_missing_fields])
         IN AnalyzeItems(Tail(data),
                [analysis EXCEPT
                    !.common_missing_fields = r.common,
                    !.items_needing_metadata =
                        IF r.missing_fields # <<>> THEN @ + 1 ELSE @,
                    !.items_ready =
                        IF r.missing_fields # <<>> THEN @ ELSE @ + 1])

\* max(common_missing_fields.items(), key=lambda x: x[1]): the first entry,
\* in insertion order, with the largest count.
MostMissing(common) ==
    LET best == CHOOSE k \in 1..Len(common) :
                    /\ \A j \in 1..Len(common) : common[j].count <= common[k].count
                    /\ \A j \in 1..(k - 1) : common[j].count < common[k].count
    IN common[best]

\* The three recommendations, each appended under its condition.
Recommendations(analysis) ==
    (IF analysis.items_needing_metadata > 0
     THEN <<[msg |-> "Run image analysis", n |-> analysis.items_needing_metadata,
             field |-> ""]>>
     ELSE <<>>)
    \o (IF analysis.items_ready > 0
        THEN <<[msg |-> "items are ready", n |-> analysis.items_ready, field |-> ""]>>
        ELSE <<>>)
    \o (IF analysis.common_missing_fields # <<>>
        THEN <<[msg   |-> "Most commonly missing field",
                n     |-> MostMissing(analysis.common_missing_fields).count,
                field |-> MostMissing(analysis.common_missing_fields).field]>>
        ELSE <<>>)

\* An item makes the inner loop raise (TypeError) when it is not a container
\* or when it is a string that holds a field name.  A null image_paths does
\* not: the function never looks at the image paths.
AnalyzeItemRaises(item) == item.kind \in {"scalar", "keystring"}

\* The body of the try block.  The file is opened and parsed with no test of
\* its existence and no test that the value is a list: len() raises on a
\* number or null, and an object is gone through key by key.
AnalyzeListingRequirementsBody(f) ==
    IF f.kind \in {"missing", "unreadable"} THEN [kind |-> "raise", exception |-> "OSError"]
    ELSE IF f.kind = "badjson" THEN [kind |-> "raise", exception |-> "JSONDecodeError"]
    ELSE IF f.kind = "notlist" THEN [kind |-> "raise", exception |-> "TypeError"]
    ELSE IF \E k \in 1..Len(f.data) : AnalyzeItemRaises(f.data[k])
         THEN [kind |-> "raise", exception |-> "TypeError"]
    ELSE LET counted == AnalyzeItems(f.data,
                            [kind |-> "ok",
                             total_items |-> Len(f.data),
                             items_needing_metadata |-> 0,
                             items_ready |-> 0,
                             common_missing_fields |-> <<>>,
                             recommendations |-> <<>>])
         IN [counted EXCEPT !.recommendations = Recommendations(counted)]

\* The whole function: the try block and "except Exception", which returns
\* the dictionary with the one key "error".
AnalyzeListingRequirements(f) ==
    LET body == AnalyzeListingRequirementsBody(f)
    IN IF body.kind = "raise"
       THEN [kind |-> "error", error |-> "Analysis failed"]
       ELSE body

-----------------------------------------------------------------------------
(* SpecFile: validate_listings_file and analyze_listing_requirements on every *)
(* file of the bounded universe                                              *)

SeqsUpTo(S, n) == UNION {[1..k -> S] : k \in 0..n}

\* One JSON object of the file.  The two required fields and two of the nine
\* metadata fields (the first and the last of the list) vary; the other seven
\* are present with a value.
FileItem(img, price, dept, desc) ==
    LET keys == {"category", "sub_category", "designer", "item_name",
                 "size", "color", "condition"}
                \cup (IF img # "absent" THEN {"image_paths"} ELSE {})
                \cup (IF price # "absent" THEN {"price"} ELSE {})
                \cup (IF dept # "absent" THEN {"department"} ELSE {})
                \cup (IF desc # "absent" THEN {"description"} ELSE {})
    IN [kind |-> "dict",
        f    |-> [k \in keys |->
                    IF k = "image_paths" THEN (IF img = "null" THEN Null ELSE "list")
                    ELSE IF k = "department" THEN (IF dept = "null" THEN Null ELSE "v")
                    ELSE "v"],
        imgs |-> IF img = "found" THEN <<"a.jpg">>
                 ELSE IF img = "gone" THEN <<"gone.jpg">>
                 ELSE <<>>]

\* A JSON value that is no container (a number): "field not in item" raises.
ScalarItem == [kind |-> "scalar", f |-> [k \in {} |-> Null], imgs |-> <<>>]

\* A JSON string that holds no field name: every "field in item" test is
\* false, so the loop body treats it as an object with no keys.
StringItem == [kind |-> "string", f |-> [k \in {} |-> Null], imgs |-> <<>>]

\* The JSON string "department": "field in item" is true for that field, and
\* item[field] on a string raises.
KeyStringItem == [kind |-> "keystring", f |-> [k \in {} |-> Null], imgs |-> <<>>]

FileItems ==
    {FileItem(img, price, dept, desc) :
        img \in {"absent", "null", "found", "gone"}, price \in {"absent", "v"},
        dept \in {"absent", "null", "v"}, desc \in {"absent", "v"}}
    \cup {ScalarItem, StringItem, KeyStringItem}

\* What file_path can name: no file, a file that cannot be opened, a file
\* that is not JSON, a JSON number or null ("notlist"), a JSON object, or a
\* list of items.  The data of an object is what "for item in data" goes
\* through: its keys, which are strings.
Files ==
    {[kind |-> k, data |-> <<>>] : k \in {"missing", "unreadable", "badjson", "notlist"}}
    \cup {[kind |-> "object", data |-> d] :
             d \in SeqsUpTo({StringItem, KeyStringItem}, MaxItems)}
    \cup {[kind |-> "list", data |-> d] : d \in SeqsUpTo(FileItems, MaxItems)}

\* The variables of a tool that the specification at hand does not call.
FileOff == fpc = "off" /\ file = [kind |-> "none", data |-> <<>>] /\ fresult = [kind |-> "none"]
           /\ aresult = [kind |-> "none"]
MetaOff == mpc = "off" /\ metadata = [f |-> [k \in {} |-> Null], imgs |-> <<>>]
           /\ mresult = [kind |-> "none"]
           /\ mresult2 = [kind |-> "none"]
           /\ gresult = [kind |-> "none"]
           /\ eresult = [kind |-> "none"]
RunOff == /\ pc = "off"
          /\ argv = [command |-> "none", dry |-> FALSE, start |-> 0]
          /\ dry_run = FALSE
          /\ order = <<>>
          /\ published = <<>>
          /\ outcome = "none"
          /\ report = <<>>
          /\ interrupted = -1
NavOff == /\ npc = "off"
          /\ page = [url |-> "none", dialog |-> FALSE, form |-> FALSE]
          /\ lastClass = "none"
          /\ verified = "none"
          /\ acts = 0
          /\ attempts = 0
          /\ budget = 0
          /\ lastTool = "none"
          /\ afterLogin = "no"
SessOff == /\ spc = "off"
           /\ servers = <<>>
           /\ cand = 0
           /\ tried = <<>>
           /\ conns = 0
           /\ client = 0
           /\ agentMade = FALSE
           /\ issued = 0
           /\ sresult = "none"

InitFile ==
    /\ fpc = "idle"
    /\ file \in Files
    /\ fresult = [kind |-> "none"]
    /\ aresult = [kind |-> "none"]
    /\ MetaOff /\ RunOff /\ NavOff /\ SessOff

\* validate_listings_file(file_path)
CallValidateListingsFile ==
    /\ fpc = "idle"
    /\ fresult' = ValidateListingsFile(file)
    /\ fpc' = "returned"
    /\ UNCHANGED <<file, aresult, metaVars, runVars, navVars, sessVars>>

\* analyze_listing_requirements(file_path)
CallAnalyzeListingRequirements ==
    /\ fpc = "idle"
    /\ aresult' = AnalyzeListingRequirements(file)
    /\ fpc' = "analyzed"
    /\ UNCHANGED <<file, fresult, metaVars, runVars, navVars, sessVars>>

NextFile ==
    \/ CallValidateListingsFile
    \/ CallAnalyzeListingRequirements

SpecFile == InitFile /\ [][NextFile]_vars

-----------------------------------------------------------------------------
(* SpecMeta: validate_grailed_metadata on every record of the bounded universe *)

AllKeys ==
    Range(RequiredFields) \cup Range(OptionalFields) \cup {"floor_price"}

\* Department values a record may carry: the two canonical ones, a case
\* variant and a value outside the enumeration.
DepartmentValues == {"Menswear", "Womenswear", "menswear", "Kids"}

MetaPaths == {"a.jpg", "b.JPEG", "c.png", "noext", "d.jpg"}

\* The records: every key present but at most MaxAbsent of them, image_paths a
\* list of at most MaxImages paths or null.
MetadataRecords ==
    {[f    |-> [k \in AllKeys \ absent |->
                  IF k = "department" THEN dept
                  ELSE IF k = "image_paths" THEN (IF imgs = <<Null>> THEN Null ELSE "list")
                  ELSE "v"],
      imgs |-> IF imgs = <<Null>> \/ "image_paths" \in absent THEN <<>> ELSE imgs] :
        absent \in {a \in SUBSET AllKeys : Cardinality(a) <= MaxAbsent},
        dept \in DepartmentValues,
        imgs \in SeqsUpTo(MetaPaths, MaxImages) \cup {<<Null>>}}

InitMeta ==
    /\ mpc = "idle"
    /\ metadata \in MetadataRecords
    /\ mresult = [kind |-> "none"]
    /\ mresult2 = [kind |-> "none"]
    /\ gresult = [kind |-> "none"]
    /\ eresult = [kind |-> "none"]
    /\ FileOff /\ RunOff /\ NavOff /\ SessOff

\* validate_grailed_metadata(metadata)
CallValidateGrailedMetadata ==
    /\ mpc = "idle"
    /\ mresult' = ValidateGrailedMetadata(metadata)
    /\ mpc' = "returned"
    /\ UNCHANGED <<metadata, mresult2, gresult, eresult>>
    /\ UNCHANGED <<fileVars, runVars, navVars, sessVars>>

\* validate_grailed_metadata(validated): the record a first call returned is
\* given to the function again.
CallValidateGrailedMetadataAgain ==
    /\ mpc = "returned"
    /\ mresult.kind = "ok"
    /\ mresult2' = ValidateGrailedMetadata(mresult.validated)
    /\ mpc' = "revalidated"
    /\ UNCHANGED <<metadata, mresult, gresult, eresult>>
    /\ UNCHANGED <<fileVars, runVars, navVars, sessVars>>

\* gemini_image_reader(image_path)
CallGeminiImageReader(image_path) ==
    /\ mpc = "idle"
    /\ gresult' = [kind |-> "called", image_path |-> image_path,
                   result |-> GeminiImageReader(image_path)]
    /\ mpc' = "read"
    /\ UNCHANGED <<metadata, mresult, mresult2, eresult>>
    /\ UNCHANGED <<fileVars, runVars, navVars, sessVars>>

\* expand_image_paths(image_paths) on the image paths of the record.
CallExpandImagePaths ==
    /\ mpc = "idle"
    /\ "image_paths" \in DOMAIN metadata.f
    /\ metadata.f["image_paths"] # Null
    /\ eresult' = ExpandImagePaths(metadata.imgs, [kind |-> "return", paths |-> <<>>, printed |-> <<>>])
    /\ mpc' = "expanded"
    /\ UNCHANGED <<metadata, mresult, mresult2, gresult>>
    /\ UNCHANGED <<fileVars, runVars, navVars, sessVars>>

NextMeta ==
    \/ CallValidateGrailedMetadata
    \/ CallValidateGrailedMetadataAgain
    \/ \E image_path \in MetaPaths : CallGeminiImageReader(image_path)
    \/ CallExpandImagePaths

SpecMeta == InitMeta /\ [][NextMeta]_vars

-----------------------------------------------------------------------------
(* Spec: main and run_with_mcp_context, one run of the agent over the items *)

\* The commands main accepts.
Commands == {"validate", "analyze", "run"}

\* The item indices of the listings file of the run.
Items == 0..(MaxItems - 1)

\* What the command line can be: too few arguments ("missing"), a command main
\* rejects, or one it accepts; with or without --dry-run; and the index the
\* user asks to start at with --start-index.
CommandLines ==
    [command : Commands \cup {"missing", "bogus"}, dry : BOOLEAN, start : Items]

Init ==
    /\ pc = "main"
    /\ argv \in CommandLines
    /\ dry_run = FALSE
    /\ order = <<>>
    /\ published = [i \in Items |-> "none"]
    /\ outcome = "none"
    /\ report = <<>>
    /\ interrupted = -1
    /\ FileOff /\ MetaOff /\ NavOff /\ SessOff

\* main: the usage check, command and filename, dry_run = "--dry-run" in
\* sys.argv, the command check.  No other flag is read: --start-index is
\* never looked at, and run_with_mcp_context has no such parameter.
Main ==
    /\ pc = "main"
    /\ IF argv.command = "missing"
       THEN pc' = "done" /\ outcome' = "usage" /\ UNCHANGED dry_run
       ELSE IF argv.command \notin Commands
       THEN pc' = "done" /\ outcome' = "invalid_command" /\ dry_run' = argv.dry
       ELSE pc' = "setup_model" /\ outcome' = outcome /\ dry_run' = argv.dry
    /\ UNCHANGED <<argv, order, published, report, interrupted>>
    /\ UNCHANGED <<fileVars, metaVars, navVars, sessVars>>

\* setup_model(): returns a model, or raises (no API key, unsupported
\* provider); the exception reaches main's except clause, which exits 1.
SetupModel ==
    /\ pc = "setup_model"
    /\ \/ pc' = "setup_client" /\ UNCHANGED outcome
       \/ pc' = "done" /\ outcome' = "error"
    /\ UNCHANGED <<argv, dry_run, order, published, report, interrupted>>
    /\ UNCHANGED <<fileVars, metaVars, navVars, sessVars>>

\* setup_playwright_client() and the test that follows it: a client, or
\* (None, []) and the early return "Browser automation not available".
SetupPlaywrightClient ==
    /\ pc = "setup_client"
    /\ \/ pc' = "context" /\ UNCHANGED outcome
       \/ pc' = "done" /\ outcome' = "no_browser"
    /\ UNCHANGED <<argv, dry_run, order, published, report, interrupted>>
    /\ UNCHANGED <<fileVars, metaVars, navVars, sessVars>>

\* "with playwright_client:", create_agent_with_mcp and the call agent(...):
\* the agent gets the instruction string and the whole tool list, whatever the
\* command and whatever dry_run is (dry_run changes two words of the string).
EnterContext ==
    /\ pc = "context"
    /\ \/ pc' = "agent" /\ UNCHANGED outcome
       \/ pc' = "done" /\ outcome' = "error"
    /\ UNCHANGED <<argv, dry_run, order, published, report, interrupted>>
    /\ UNCHANGED <<fileVars, metaVars, navVars, sessVars>>

\* The agent fills the form of item i (browser_type, browser_select_option).
AgentFill(i) ==
    /\ pc = "agent"
    /\ Len(order) < MaxFills
    /\ order' = Append(order, i)
    /\ UNCHANGED <<pc, argv, dry_run, published, outcome, report, interrupted>>
    /\ UNCHANGED <<fileVars, metaVars, navVars, sessVars>>

\* The agent clicks the publish button (browser_click) while the form on the
\* page is the one it last filled, item i's.
AgentPublish(i) ==
    /\ pc = "agent"
    /\ order # <<>> /\ order[Len(order)] = i
    /\ published[i] # "more"
    /\ published' = [published EXCEPT ![i] = IF @ = "none" THEN "once" ELSE "more"]
    /\ UNCHANGED <<pc, argv, dry_run, order, outcome, report, interrupted>>
    /\ UNCHANGED <<fileVars, metaVars, navVars, sessVars>>

\* What the text of a response can say about one item.
ReportEntries ==
    [index : Items, status : {"Succeeded", "Failed"}, reason : {"", "NavigationFailure"}]

\* agent(...) returns its response; run_with_mcp_context returns it and main
\* prints it.  The response is the text the language model wrote: the code
\* builds no record of the items and checks nothing in the text, so the
\* outcomes it names are whatever the model put there.
AgentReturns ==
    /\ pc = "agent"
    /\ pc' = "done"
    /\ outcome' = "response"
    /\ report' \in SeqsUpTo(ReportEntries, MaxItems)
    /\ UNCHANGED <<argv, dry_run, order, published, interrupted>>
    /\ UNCHANGED <<fileVars, metaVars, navVars, sessVars>>

\* agent(...) raises (model API error, token limit, lost browser process):
\* nothing in run_with_mcp_context catches it, main's except clause prints
\* the error and exits 1.
AgentRaises ==
    /\ pc = "agent"
    /\ pc' = "done"
    /\ outcome' = "error"
    /\ UNCHANGED <<argv, dry_run, order, published, report, interrupted>>
    /\ UNCHANGED <<fileVars, metaVars, navVars, sessVars>>

\* The agent calls prompt_user_login(): input() returns when the user presses
\* Enter, or raises KeyboardInterrupt when the user presses Ctrl-C; the tool
\* catches it and returns "User cancelled login process" as its result, and
\* the agent goes on with the next tool call.
AgentPromptUserLogin ==
    /\ pc = "agent"
    /\ \E key \in {"enter", "ctrl_c"} :
          interrupted' = IF key = "ctrl_c" /\ interrupted = -1
                         THEN Len(order) ELSE interrupted
    /\ UNCHANGED <<pc, argv, dry_run, order, published, outcome, report>>
    /\ UNCHANGED <<fileVars, metaVars, navVars, sessVars>>

\* Ctrl-C while agent(...) runs outside a prompt: KeyboardInterrupt is not an
\* Exception, so main's "except Exception" does not catch it; the process
\* ends with the traceback and prints no response.
KeyboardInterruptInAgent ==
    /\ pc = "agent"
    /\ pc' = "done"
    /\ outcome' = "interrupt"
    /\ UNCHANGED <<argv, dry_run, order, published, report, interrupted>>
    /\ UNCHANGED <<fileVars, metaVars, navVars, sessVars>>

Next ==
    \/ Main
    \/ SetupModel
    \/ SetupPlaywrightClient
    \/ EnterContext
    \/ \E i \in Items : AgentFill(i)
    \/ \E i \in Items : AgentPublish(i)
    \/ AgentReturns
    \/ AgentRaises
    \/ AgentPromptUserLogin
    \/ KeyboardInterruptInAgent

Spec == Init /\ [][Next]_vars

-----------------------------------------------------------------------------
(* SpecNav: the agent's navigation tools against the browser page *)

\* wait_and_retry: the default of max_retries.
DefaultMaxRetries == 3

Urls == {"root", "sell", "profile", "other"}

\* The states detect_current_page_state asks the agent to return.
Labels == {"homepage", "login_popup", "sell_page", "profile", "unknown"}

\* The text detect_current_page_state returns, read as indicators: the URL
\* indicator of the homepage, the sell page and the profile page, the dialog
\* and credential-input landmarks of the login popup, "other" for the rest.
\* The text gives the five states as a list and ranks none above another.
Matches(label, p) ==
    CASE label = "homepage"    -> p.url = "root"
      [] label = "login_popup" -> p.dialog
      [] label = "sell_page"   -> p.url = "sell"
      [] label = "profile"     -> p.url = "profile"
      [] OTHER                 -> p.url = "other" /\ ~p.dialog

MatchingLabels(p) == {l \in Labels : Matches(l, p)}

\* The text verify_sell_page_ready returns, read as a check: sell URL, form
\* elements present, no overlay.
ReadyVerdict(p) == p.url = "sell" /\ p.form /\ ~p.dialog

Bump(n) == IF n < 2 THEN n + 1 ELSE 2

InitNav ==
    /\ npc = "agent"
    /\ page = [url |-> "other", dialog |-> FALSE, form |-> FALSE]
    /\ lastClass = "none"
    /\ verified = "none"
    /\ acts = 0
    /\ attempts = 0
    /\ budget = DefaultMaxRetries
    /\ lastTool = "none"
    /\ afterLogin = "no"
    /\ FileOff /\ MetaOff /\ RunOff /\ SessOff

\* detect_current_page_state(): the tool takes no argument and returns the
\* same text for every page; the label is the one the agent then reports, any
\* state whose indicators the page shows.
DetectCurrentPageState ==
    /\ npc = "agent"
    /\ \E l \in MatchingLabels(page) :
          /\ lastClass' = l
          /\ attempts' = IF l = "sell_page" THEN 0 ELSE attempts
    /\ acts' = 0
    /\ afterLogin' = "no"
    /\ lastTool' = "detect"
    /\ UNCHANGED <<npc, page, verified, budget>>
    /\ UNCHANGED <<fileVars, metaVars, runVars, sessVars>>

\* verify_sell_page_ready(): the tool takes no argument and returns the same
\* text for every page; the verdict is the one the agent then reports.
VerifySellPageReady ==
    /\ npc = "agent"
    /\ verified' = IF ReadyVerdict(page) THEN "READY" ELSE "NOT_READY"
    /\ acts' = 0
    /\ lastTool' = "verify"
    /\ UNCHANGED <<npc, page, lastClass, attempts, budget, afterLogin>>
    /\ UNCHANGED <<fileVars, metaVars, runVars, sessVars>>

\* browser_navigate to a URL: the site answers with that page, with or without
\* a login dialog over it, the sell form loaded or not.
BrowserNavigate(u) ==
    /\ npc = "agent"
    /\ \E d \in BOOLEAN, f \in BOOLEAN :
          /\ f => u = "sell"
          /\ page' = [url |-> u, dialog |-> d, form |-> f]
    /\ acts' = Bump(acts)
    /\ verified' = "none"
    /\ lastTool' = "navigate"
    /\ UNCHANGED <<npc, lastClass, attempts, budget, afterLogin>>
    /\ UNCHANGED <<fileVars, metaVars, runVars, sessVars>>

\* browser_click on the sell button of the homepage: nothing happens, the
\* login dialog opens, or the sell page loads (its form at once or not yet).
BrowserClickSell ==
    /\ npc = "agent"
    /\ page.url = "root"
    /\ attempts < MaxAttempts
    /\ \/ page' = page
       \/ page' = [page EXCEPT !.dialog = TRUE]
       \/ \E f \in BOOLEAN : page' = [url |-> "sell", dialog |-> FALSE, form |-> f]
    /\ attempts' = attempts + 1
    /\ acts' = Bump(acts)
    /\ verified' = "none"
    /\ lastTool' = "click"
    /\ UNCHANGED <<npc, lastClass, budget, afterLogin>>
    /\ UNCHANGED <<fileVars, metaVars, runVars, sessVars>>

\* browser_type / browser_select_option: the agent starts filling the form.
BrowserType ==
    /\ npc = "agent"
    /\ acts' = Bump(acts)
    /\ lastTool' = "type"
    /\ UNCHANGED <<npc, page, lastClass, verified, attempts, budget, afterLogin>>
    /\ UNCHANGED <<fileVars, metaVars, runVars, sessVars>>

\* prompt_user_login(): prints the banner and blocks in input().
PromptUserLogin ==
    /\ npc = "agent"
    /\ npc' = "login_wait"
    /\ verified' = "none"
    /\ lastTool' = "prompt_user_login"
    /\ UNCHANGED <<page, lastClass, acts, attempts, budget, afterLogin>>
    /\ UNCHANGED <<fileVars, metaVars, runVars, sessVars>>

\* input() returns: the tool returns "User confirmed login popup completed".
\* The user has closed the dialog by logging in, or has only pressed Enter.
UserPressesEnter ==
    /\ npc = "login_wait"
    /\ npc' = "agent"
    /\ \/ page' = page
       \/ page' = [page EXCEPT !.dialog = FALSE]
    /\ afterLogin' = "confirmed"
    /\ lastTool' = "login_returned"
    /\ UNCHANGED <<lastClass, verified, acts, attempts, budget>>
    /\ UNCHANGED <<fileVars, metaVars, runVars, sessVars>>

\* input() raises KeyboardInterrupt: the tool catches it and returns "User
\* cancelled login process" as an ordinary result; the agent goes on.
UserInterrupts ==
    /\ npc = "login_wait"
    /\ npc' = "agent"
    /\ afterLogin' = "cancelled"
    /\ lastTool' = "login_returned"
    /\ UNCHANGED <<page, lastClass, verified, acts, attempts, budget>>
    /\ UNCHANGED <<fileVars, metaVars, runVars, sessVars>>

\* wait_and_retry(action_description, max_retries): returns the retry text
\* with the maximum in it; it waits for nothing, counts nothing and retries
\* nothing.
WaitAndRetry(max_retries) ==
    /\ npc = "agent"
    /\ budget' = max_retries
    /\ lastTool' = "wait_and_retry"
    /\ UNCHANGED <<npc, page, lastClass, verified, acts, attempts, afterLogin>>
    /\ UNCHANGED <<fileVars, metaVars, runVars, sessVars>>

NextNav ==
    \/ DetectCurrentPageState
    \/ VerifySellPageReady
    \/ \E u \in Urls : BrowserNavigate(u)
    \/ BrowserClickSell
    \/ BrowserType
    \/ PromptUserLogin
    \/ UserPressesEnter
    \/ UserInterrupts
    \/ \E m \in {DefaultMaxRetries, MaxAttempts} : WaitAndRetry(m)

SpecNav == InitNav /\ [][NextNav]_vars

-----------------------------------------------------------------------------
(* SpecSession: the browser client of a run, from setup_playwright_client to *)
(* the end of "with playwright_client:" in run_with_mcp_context              *)

\* setup_playwright_client: server_commands, the one server tried first.
ServerCommands == <<"@playwright/mcp@latest">>

\* setup_playwright_client: fallback_commands, in the order of the list.
FallbackCommands ==
    <<"@automatalabs/mcp-server-playwright", "@modelcontextprotocol/server-playwright">>

\* Candidates with the fallback servers tried before the first one.
CandidatesFallbackFirst == FallbackCommands \o ServerCommands

\* The servers in the order the two loops go through them.
Candidates == ServerCommands \o FallbackCommands

\* How a server can behave: "ok" connects and lists its tools whenever asked;
\* "no_connect" fails when the client connects; "no_tools" connects and fails
\* in list_tools_sync; "once" serves the first connection and fails the next.
ServerBehaviours == {"ok", "no_connect", "no_tools", "once"}

\* The "with" statement leaves the connection it opened as it found it.
ExitLeavesOpen(n) == n

\* "with playwright_client:" entered: the client connects.
EnterClient(n) == n + 1

\* "with playwright_client:" left, by return or by exception: the client
\* disconnects.
ExitClient(n) == n - 1

InitSession ==
    /\ spc = "setup"
    /\ servers \in [1..Len(Candidates) -> ServerBehaviours]
    /\ cand = 1
    /\ tried = <<>>
    /\ conns = 0
    /\ client = 0
    /\ agentMade = FALSE
    /\ issued = 0
    /\ sresult = "none"
    /\ FileOff /\ MetaOff /\ RunOff /\ NavOff

\* One pass of a "for command in ..." loop up to the "with": the MCPClient is
\* built and the with statement connects it.  When that raises, the except
\* clause prints the failure and the loop goes on with the next candidate.
TryCandidate ==
    /\ spc = "setup"
    /\ cand <= Len(Candidates)
    /\ tried' = Append(tried, Candidates[cand])
    /\ IF servers[cand] = "no_connect"
       THEN cand' = cand + 1 /\ UNCHANGED <<spc, conns>>
       ELSE spc' = "probe" /\ conns' = EnterClient(conns) /\ UNCHANGED cand
    /\ UNCHANGED <<servers, client, agentMade, issued, sresult>>
    /\ UNCHANGED <<fileVars, metaVars, runVars, navVars>>

\* Inside the with: list_tools_sync() and "return playwright_client,
\* playwright_tools".  The return leaves the with, which disconnects; so does
\* the exception of list_tools_sync, after which the loop goes on.
ListToolsSync ==
    /\ spc = "probe"
    /\ conns' = ExitClient(conns)
    /\ IF servers[cand] = "no_tools"
       THEN cand' = cand + 1 /\ spc' = "setup" /\ UNCHANGED client
       ELSE client' = cand /\ spc' = "check" /\ UNCHANGED cand
    /\ UNCHANGED <<servers, tried, agentMade, issued, sresult>>
    /\ UNCHANGED <<fileVars, metaVars, runVars, navVars>>

\* Both loops are through: "return None, []".
AllCandidatesFailed ==
    /\ spc = "setup"
    /\ cand > Len(Candidates)
    /\ client' = 0
    /\ spc' = "check"
    /\ UNCHANGED <<servers, cand, tried, conns, agentMade, issued, sresult>>
    /\ UNCHANGED <<fileVars, metaVars, runVars, navVars>>

\* run_with_mcp_context: "if playwright_client is None: return ...".
CheckClient ==
    /\ spc = "check"
    /\ IF client = 0
       THEN spc' = "done" /\ sresult' = "Browser automation not available"
       ELSE spc' = "enter" /\ UNCHANGED sresult
    /\ UNCHANGED <<servers, cand, tried, conns, client, agentMade, issued>>
    /\ UNCHANGED <<fileVars, metaVars, runVars, navVars>>

\* run_with_mcp_context: "with playwright_client:" connects the returned
\* client again; when the server no longer answers, the exception leaves
\* run_with_mcp_context.
OpenRunContext ==
    /\ spc = "enter"
    /\ IF servers[client] = "once"
       THEN spc' = "done" /\ sresult' = "error" /\ UNCHANGED conns
       ELSE spc' = "context" /\ conns' = EnterClient(conns) /\ UNCHANGED sresult
    /\ UNCHANGED <<servers, cand, tried, client, agentMade, issued>>
    /\ UNCHANGED <<fileVars, metaVars, runVars, navVars>>

\* create_agent_with_mcp(playwright_client, playwright_tools, model)
CreateAgentWithMcp ==
    /\ spc = "context"
    /\ agentMade' = TRUE
    /\ spc' = "agent"
    /\ UNCHANGED <<servers, cand, tried, conns, client, issued, sresult>>
    /\ UNCHANGED <<fileVars, metaVars, runVars, navVars>>

\* Inside agent(...): the agent calls a tool of the browser.
AgentCommand ==
    /\ spc = "agent"
    /\ issued < MaxCommands
    /\ issued' = issued + 1
    /\ UNCHANGED <<spc, servers, cand, tried, conns, client, agentMade, sresult>>
    /\ UNCHANGED <<fileVars, metaVars, runVars, navVars>>

\* agent(...) returns or raises: "return response" or the exception leaves the
\* with, which disconnects the client.
LeaveRunContext ==
    /\ spc = "agent"
    /\ conns' = ExitClient(conns)
    /\ spc' = "done"
    /\ sresult' \in {"response", "error"}
    /\ UNCHANGED <<servers, cand, tried, client, agentMade, issued>>
    /\ UNCHANGED <<fileVars, metaVars, runVars, navVars>>

NextSession ==
    \/ TryCandidate
    \/ ListToolsSync
    \/ AllCandidatesFailed
    \/ CheckClient
    \/ OpenRunContext
    \/ CreateAgentWithMcp
    \/ AgentCommand
    \/ LeaveRunContext

SpecSession == InitSession /\ [][NextSession]_vars

-----------------------------------------------------------------------------
(* Claims about the browser session *)

\* setup_playwright_client has returned.
SetupReturned == spc \in {"check", "enter", "context", "agent", "done"}

\* C14: at most one client connection is open in every state; the connection
\* of the probe is closed when setup_playwright_client has returned and until
\* run_with_mcp_context opens its own; and while the agent exists and issues
\* commands exactly one connection is open.
C14_OneConnection ==
    spc # "off" =>
        /\ conns \in {0, 1}
        /\ spc \in {"check", "enter"} => conns = 0
        /\ spc \in {"context", "agent"} => conns = 1
        /\ agentMade => spc \in {"agent", "done"}
        /\ issued > 0 => spc \in {"agent", "done"}

\* C14's case: the first candidate failed in its probe, the second was probed
\* and returned, and the agent has issued a command on the run's connection.
C14_Witness ==
    /\ spc = "agent"
    /\ Len(tried) = 2
    /\ servers[1] = "no_tools"
    /\ agentMade
    /\ issued > 0
    /\ conns = 1

\* The candidates that fail in the probe.
FailsProbe(c) == servers[c] \in {"no_connect", "no_tools"}

\* C19: the candidates are tried in the order @playwright/mcp@latest,
\* @automatalabs/mcp-server-playwright, @modelcontextprotocol/server-playwright;
\* the client returned is that of the first candidate whose connection and
\* tool listing succeed, and none is tried after it; None is returned if and
\* only if all three fail, and then run_with_mcp_context returns without
\* creating an agent or issuing a command.
C19_FirstWorkingCandidate ==
    spc # "off" =>
        /\ tried = SubSeq(<<"@playwright/mcp@latest",
                            "@automatalabs/mcp-server-playwright",
                            "@modelcontextprotocol/server-playwright">>, 1, Len(tried))
        /\ SetupReturned =>
              /\ client # 0 => /\ ~FailsProbe(client)
                               /\ \A c \in 1..(client - 1) : FailsProbe(c)
                               /\ Len(tried) = client
              /\ client = 0 <=> \A c \in 1..3 : FailsProbe(c)
              /\ client = 0 => /\ Len(tried) = 3
                               /\ ~agentMade
                               /\ issued = 0
                               /\ spc = "done" => sresult = "Browser automation not available"

\* C19's case: the first candidate failed to connect, the second failed to
\* list its tools, the third worked and is the client of the run.
C19_Witness ==
    /\ spc = "agent"
    /\ servers[1] = "no_connect"
    /\ servers[2] = "no_tools"
    /\ client = 3
    /\ Len(tried) = 3

\* C19's other case: all three candidates failed and the run has returned.
C19_AllFailed ==
    /\ spc = "done"
    /\ client = 0
    /\ Len(tried) = 3
    /\ sresult = "Browser automation not available"

-----------------------------------------------------------------------------
(* Claims about navigation *)

\* C1: the controller is Ready (the last verdict of verify_sell_page_ready,
\* with no navigation action since, is READY) only if the most recent
\* classification returned the sell page and the form landmarks are present
\* with no login dialog over them; and a form fill is issued only when Ready.
C1_ReadyOnlyOnVerifiedSellPage ==
    npc # "off" =>
        /\ verified = "READY" => (lastClass = "sell_page" /\ page.form /\ ~page.dialog)
        /\ lastTool = "type" => verified = "READY"

\* C4: a navigation step (the click on the sell button) is attempted at most
\* the configured maximum number of times before the expected state is
\* reached.
C4_BoundedAttempts ==
    npc # "off" => attempts <= budget

\* C5: every browser action is followed by an observation of the page before
\* the next browser action is issued.
C5_ObserveAfterEveryAction ==
    npc # "off" => acts <= 1

\* The label of the first rule that matches, in the order LoginPopup, SellPage,
\* ProfilePage, Homepage, Unknown.
PriorityLabel(p) ==
    IF Matches("login_popup", p) THEN "login_popup"
    ELSE IF Matches("sell_page", p) THEN "sell_page"
    ELSE IF Matches("profile", p) THEN "profile"
    ELSE IF Matches("homepage", p) THEN "homepage"
    ELSE "unknown"

\* C6: classification applies the rules in the order LoginPopup, SellPage,
\* ProfilePage, Homepage, Unknown and the first match wins; a page with the
\* login dialog landmark is LoginPopup whatever its URL.
C6_LoginPopupFirst ==
    (npc # "off" /\ lastTool = "detect") => lastClass = PriorityLabel(page)

\* C7: prompt_user_login is called only when the last classification was the
\* login popup; once the login popup is classified nothing but the hand-off
\* follows; and after the callback returns nothing is done before the page is
\* classified again.
C7_LoginHandOff ==
    npc # "off" =>
        /\ npc = "login_wait" => lastClass = "login_popup"
        /\ lastClass = "login_popup" =>
              lastTool \in {"detect", "prompt_user_login", "login_returned"}
        /\ afterLogin # "no" => lastTool = "login_returned"

-----------------------------------------------------------------------------
(* Claims about the run *)

\* C2: the items are processed in strictly ascending index order beginning at
\* the start index the run was given, and every index from the start index to
\* the last has been processed when the run is over, whether it ended with the
\* agent's response or with a failure after the first item was taken up.
C2_AscendingFromStart ==
    argv.command = "run" =>
        /\ \A j, k \in 1..Len(order) : j < k => order[j] < order[k]
        /\ order # <<>> => order[1] = argv.start
        /\ (pc = "done" /\ (outcome = "response" \/ (outcome = "error" /\ order # <<>>)))
           => {i \in Items : i >= argv.start} \subseteq Range(order)

\* C3: with dry_run the publish click is never issued; without it, it is
\* issued exactly once for each item whose form was filled and never for an
\* item whose form was not.
C3_PublishRespectsDryRun ==
    argv.command = "run" =>
        /\ dry_run => \A i \in Items : published[i] = "none"
        /\ \A i \in Items : published[i] # "more"
        /\ \A i \in Items : i \notin Range(order) => published[i] = "none"
        /\ (~dry_run /\ pc = "done" /\ outcome = "response")
           => \A i \in Items : i \in Range(order) => published[i] = "once"

\* The item indices a report has an entry for.
Reported == {report[k].index : k \in 1..Len(report)}

\* C11: when a run ends with its response, the report has exactly one entry
\* for each item from the start index onward, in index order, and every entry
\* that is Skipped or Failed carries a non-empty reason.
C11_ReportCoversEveryItem ==
    (argv.command = "run" /\ pc = "done" /\ outcome = "response") =>
        /\ Len(report) = MaxItems - argv.start
        /\ \A k \in 1..Len(report) : report[k].index = argv.start + k - 1
        /\ \A k \in 1..Len(report) :
              report[k].status \in {"Skipped", "Failed"} => report[k].reason # ""

\* C12: when the run is aborted by a failure of the session, the caller still
\* receives the outcomes accumulated so far: every item taken up before the
\* failure has its entry in the report.
C12_PartialReportOnSessionFailure ==
    (argv.command = "run" /\ pc = "done" /\ outcome \in {"error", "no_browser"}) =>
        Range(order) \subseteq Reported

\* C13: after a user interrupt no further item is started, and the report
\* accumulated up to the interrupt is still emitted when the run stops.
C13_OrderlyStopOnInterrupt ==
    argv.command = "run" =>
        /\ interrupted # -1 => Len(order) = interrupted
        /\ (pc = "done" /\ (interrupted # -1 \/ outcome = "interrupt"))
           => Range(order) \subseteq Reported

-----------------------------------------------------------------------------
(* Claims about validate_listings_file *)

FileOk == fpc = "returned" /\ fresult.kind = "ok"

\* C8: in every result validate_listings_file returns from its item loop, an
\* item is valid if and only if its errors are empty (so warnings and missing
\* metadata never make it invalid), and the overall valid flag is true if and
\* only if every item is valid, which is if and only if total_errors is 0.
C8_ValidIffNoErrors ==
    FileOk =>
        /\ \A k \in 1..Len(fresult.items) :
              fresult.items[k].valid <=> (fresult.items[k].errors = <<>>)
        /\ fresult.valid <=> (\A k \in 1..Len(fresult.items) : fresult.items[k].valid)
        /\ fresult.valid <=> (fresult.total_errors = 0)

\* C8's case: a file of two items, the first valid although it has a warning
\* and missing metadata, the second invalid, so the file is invalid.
C8_Witness ==
    /\ FileOk
    /\ Len(fresult.items) = 2
    /\ fresult.items[1].valid
    /\ fresult.items[1].warnings # <<>>
    /\ fresult.items[1].missing_metadata # <<>>
    /\ ~fresult.items[2].valid
    /\ ~fresult.valid
    /\ fresult.total_errors > 0

AbsentRequired(item) == {"image_paths", "price"} \ DOMAIN item.f

MissingMeta(item) ==
    {k \in {"department", "category", "sub_category", "designer", "item_name",
            "size", "color", "condition", "description"} :
        k \notin DOMAIN item.f \/ item.f[k] = Null}

\* C10: in validate_listings_file each absent strictly-required field
\* (image_paths, price) adds exactly one error and makes the item invalid,
\* while each absent or null metadata field is listed in missing_metadata and
\* adds no error and leaves valid alone.
C10_RejectVersusReport ==
    FileOk =>
        \A k \in 1..Len(fresult.items) :
            LET item == file.data[k]
                r    == fresult.items[k]
            IN /\ \A q \in AbsentRequired(item) :
                     Cardinality({e \in 1..Len(r.errors) : r.errors[e].field = q}) = 1
               /\ Len(r.errors) = Cardinality(AbsentRequired(item))
               /\ r.valid <=> (AbsentRequired(item) = {})
               /\ Range(r.missing_metadata) = MissingMeta(item)
               /\ Len(r.missing_metadata) = Cardinality(MissingMeta(item))

\* C10's case: one item lacks price and is rejected with one error, while
\* another lacks or nulls metadata only and stays valid with no error.
C10_Witness ==
    /\ FileOk
    /\ Len(fresult.items) = 2
    /\ AbsentRequired(file.data[1]) = {"price"}
    /\ Len(fresult.items[1].errors) = 1
    /\ ~fresult.items[1].valid
    /\ AbsentRequired(file.data[2]) = {}
    /\ MissingMeta(file.data[2]) = {"department", "description"}
    /\ fresult.items[2].errors = <<>>
    /\ fresult.items[2].valid

-----------------------------------------------------------------------------
(* Claims about validate_grailed_metadata *)

MetaReturned == mpc = "returned"

\* The errors of a call that are about the department value.
DepartmentErrors(res) ==
    {e \in 1..Len(res.errors) : res.errors[e].about = "department"}

\* C9: a record whose department is exactly Menswear or Womenswear gets no
\* department error; a record with any other department value gets exactly
\* one error naming that value, and the value is not auto-corrected.  Stated
\* for the calls that return (no image path stops them first).
C9_DepartmentChecked ==
    (MetaReturned /\ mresult.kind = "ok" /\ "department" \in DOMAIN metadata.f) =>
        LET dept == metadata.f["department"]
        IN /\ dept \in {"Menswear", "Womenswear"} =>
                 DepartmentErrors(mresult) = {}
           /\ dept \notin {"Menswear", "Womenswear"} =>
                 /\ Cardinality(DepartmentErrors(mresult)) = 1
                 /\ \A e \in DepartmentErrors(mresult) : mresult.errors[e].value = dept
           /\ mresult.kind = "ok" => mresult.validated.f["department"] = dept

\* C15: every field of the record given to validate_grailed_metadata is in
\* the validated record with the same value, floor_price and the image paths
\* included.
C15_LosslessRoundTrip ==
    (MetaReturned /\ mresult.kind = "ok") =>
        /\ \A k \in DOMAIN metadata.f :
              /\ k \in DOMAIN mresult.validated.f
              /\ mresult.validated.f[k] = metadata.f[k]
        /\ mresult.validated.imgs = metadata.imgs

\* C16: validating the record that a successful validation returned succeeds
\* and returns that same record.
C16_Idempotent ==
    mpc = "revalidated" =>
        /\ mresult2.kind = "ok"
        /\ mresult2.validated = mresult.validated

\* C16's case: a record with a color, a description and image paths, of which
\* the first validation dropped a field, has been validated a second time.
C16_Witness ==
    /\ mpc = "revalidated"
    /\ {"color", "description", "floor_price"} \subseteq DOMAIN metadata.f
    /\ metadata.imgs = <<"a.jpg", "b.JPEG">>
    /\ DOMAIN mresult.validated.f # DOMAIN metadata.f
    /\ "color" \in DOMAIN mresult2.validated.f

-----------------------------------------------------------------------------
(* Claims about the image tools *)

\* The paths of the input that do not exist, in the order of the input.
RECURSIVE MissingOf(_)
MissingOf(paths) ==
    IF paths = <<>> THEN <<>>
    ELSE (IF Head(paths) \in {"a.jpg", "c.png", "d.jpg"} THEN <<>> ELSE <<Head(paths)>>)
         \o MissingOf(Tail(paths))

\* C17: expand_image_paths returns one resolved absolute path for each input
\* path, in the order of the input, so as many paths as it was given; a path
\* that does not exist is kept and gets exactly one warning.
C17_ExpandKeepsEveryPath ==
    mpc = "expanded" =>
        /\ Len(eresult.paths) = Len(metadata.imgs)
        /\ \A k \in 1..Len(metadata.imgs) : eresult.paths[k] = Resolve(metadata.imgs[k])
        /\ eresult.printed = MissingOf(metadata.imgs)

\* C17's case: two paths, the first of a file that does not exist, the second
\* of one that does; both are returned, the first with a warning.
C17_Witness ==
    /\ mpc = "expanded"
    /\ metadata.imgs = <<"b.JPEG", "a.jpg">>
    /\ eresult.paths = <<"/cwd/b.JPEG", "/cwd/a.jpg">>
    /\ eresult.printed = <<"b.JPEG">>

\* C18: validate_grailed_metadata raises ValueError and returns no record
\* exactly when some image path of the record has an extension other than
\* .jpg/.jpeg in any letter case, and returns the record when every path has
\* one or image_paths is absent; gemini_image_reader always returns, with the
\* not-found text for a missing path whatever its extension and with the
\* invalid-format text for an existing path of another extension.
C18_StrictImageFormat ==
    /\ (MetaReturned /\ ("image_paths" \in DOMAIN metadata.f => metadata.f["image_paths"] # Null)) =>
          LET bad == {k \in 1..Len(metadata.imgs) :
                         metadata.imgs[k] \notin {"a.jpg", "b.JPEG", "d.jpg"}}
          IN /\ bad # {} => /\ mresult.kind = "raise"
                            /\ "validated" \notin DOMAIN mresult
                            /\ mresult.errors[1].type = "ValueError"
             /\ bad = {} => /\ mresult.kind = "ok"
                            /\ mresult.validated.imgs = metadata.imgs
    /\ mpc = "read" =>
          /\ gresult.result.kind = "return"
          /\ gresult.image_path \in {"b.JPEG", "noext"} =>
                gresult.result.text = "Error: Image file not found"
          /\ gresult.image_path = "c.png" =>
                /\ gresult.result.text = "Error reading image"
                /\ gresult.result.cause = "Invalid image format"
          /\ gresult.image_path = "a.jpg" =>
                gresult.result.text = "Image successfully loaded"

\* C18's case: a record whose first path is a JPEG in capitals and whose
\* second is a PNG has been rejected.
C18_Witness ==
    /\ MetaReturned
    /\ metadata.imgs = <<"b.JPEG", "c.png">>
    /\ mresult.kind = "raise"
    /\ mresult.errors[1].value = ".png"

\* C18's other case: a record whose only path is a JPEG in capitals has been
\* returned.
C18_AcceptsUpperCase ==
    /\ MetaReturned
    /\ metadata.imgs = <<"b.JPEG">>
    /\ mresult.kind = "ok"

-----------------------------------------------------------------------------
(* Claims about validate_listings_file, continued *)

\* C20: validate_listings_file always returns a result.  For a missing file,
\* a file that is not JSON, a JSON value that is not a list or an exception
\* while the items are checked, the result has valid false, an error message
\* and no items; otherwise it has one item result for each element of the
\* list, with the element's position as index, and total_items is the length
\* of the list.
C20_TotalAndShaped ==
    fpc = "returned" =>
        /\ fresult.kind \in {"error", "ok"}
        /\ IF \/ file.kind # "list"
              \/ \E k \in 1..Len(file.data) :
                    \/ file.data[k].kind \in {"scalar", "keystring"}
                    \/ /\ "image_paths" \in DOMAIN file.data[k].f
                       /\ file.data[k].f["image_paths"] = Null
           THEN /\ fresult.kind = "error"
                /\ fresult.valid = FALSE
                /\ fresult.error # ""
                /\ fresult.items = <<>>
           ELSE /\ fresult.kind = "ok"
                /\ Len(fresult.items) = Len(file.data)
                /\ \A k \in 1..Len(fresult.items) : fresult.items[k].index = k - 1
                /\ fresult.total_items = Len(file.data)

\* C20's case: a list whose second element makes the loop raise after the
\* first was checked: the result is the error result, with no items.
C20_Witness ==
    /\ fpc = "returned"
    /\ file.kind = "list"
    /\ Len(file.data) = 2
    /\ file.data[1].kind = "dict"
    /\ file.data[2].kind = "scalar"
    /\ fresult.kind = "error"
    /\ fresult.items = <<>>

-----------------------------------------------------------------------------
(* Claims about analyze_listing_requirements *)

\* The items of the file that lack the field or hold null for it.
ItemsMissing(field) ==
    {k \in 1..Len(file.data) :
        field \notin DOMAIN file.data[k].f \/ file.data[k].f[field] = Null}

\* C21: in every successful result of analyze_listing_requirements,
\* items_needing_metadata + items_ready = total_items; items_ready is the
\* number of items none of whose nine metadata fields is absent or null; and
\* common_missing_fields holds exactly the fields some item is missing, each
\* once, with the number of items missing it (so between 1 and total_items).
C21_EachItemCountedOnce ==
    (fpc = "analyzed" /\ aresult.kind = "ok") =>
        /\ aresult.total_items = Len(file.data)
        /\ aresult.items_needing_metadata + aresult.items_ready = aresult.total_items
        /\ aresult.items_ready =
              Cardinality({k \in 1..Len(file.data) : MissingMeta(file.data[k]) = {}})
        /\ \A e \in 1..Len(aresult.common_missing_fields) :
              LET entry == aresult.common_missing_fields[e]
              IN /\ entry.count = Cardinality(ItemsMissing(entry.field))
                 /\ entry.count >= 1
                 /\ entry.count <= aresult.total_items
                 /\ \A j \in 1..Len(aresult.common_missing_fields) :
                       aresult.common_missing_fields[j].field = entry.field => j = e
        /\ \A field \in {"department", "category", "sub_category", "designer", "item_name",
                         "size", "color", "condition", "description"} :
              ItemsMissing(field) # {} =>
                 \E e \in 1..Len(aresult.common_missing_fields) :
                    aresult.common_missing_fields[e].field = field

\* C21's case: two items, one with every metadata field and one that lacks
\* the department and holds no description: one is ready, one needs
\* metadata, and each of the two fields is counted once.
C21_Witness ==
    /\ fpc = "analyzed"
    /\ aresult.kind = "ok"
    /\ aresult.total_items = 2
    /\ aresult.items_ready = 1
    /\ aresult.items_needing_metadata = 1
    /\ MissingMeta(file.data[1]) = {}
    /\ MissingMeta(file.data[2]) = {"department", "description"}
    /\ Len(aresult.common_missing_fields) = 2

\* C21's other case: two items that both lack the department; the field is
\* counted twice.
C21_CountsTwo ==
    /\ fpc = "analyzed"
    /\ aresult.kind = "ok"
    /\ aresult.total_items = 2
    /\ aresult.items_needing_metadata = 2
    /\ \E e \in 1..Len(aresult.common_missing_fields) :
          /\ aresult.common_missing_fields[e].field = "department"
          /\ aresult.common_missing_fields[e].count = 2

====
